---- MODULE Spec2Model ----
(***************************************************************************)
(* Model of what_if.py: find_days (bounded best/worst day selection over   *)
(* a csv.DictReader) and perf_if_missing_days (replay of the series with   *)
(* a set of missed dates).                                                 *)
(*                                                                         *)
(* Prices are positive integers; a float quotient of two of them is kept   *)
(* as the reduced fraction [num, den], which orders and compares exactly   *)
(* as the correctly rounded doubles do on these small operands.            *)
(***************************************************************************)
EXTENDS Integers, Sequences, FiniteSets, TLC

\* ------------------------------------------------------------- bounds
MaxLen == 3
MaxN == 3
Prices == {1, 2, 3}

\* ------------------------------------------------------------- arithmetic
Abs(x) == IF x < 0 THEN 0 - x ELSE x

RECURSIVE Gcd(_, _)
Gcd(a, b) == IF b = 0 THEN a ELSE Gcd(b, a % b)

\* a / b for b > 0, as a reduced fraction
Div(a, b) ==
    LET g == Gcd(Abs(a), b)
    IN  [num |-> a \div g, den |-> b \div g]

Less(f, g) == f.num * g.den < g.num * f.den

\* a local that has not been assigned yet
Unset == [num |-> 0, den |-> 0]

\* ------------------------------------------------------------- data
DayPerf(date, change_percentage) ==
    [date |-> date, change_percentage |-> change_percentage]

\* The rows behind the reader (header already skipped): dates are the row
\* numbers, hence unique and increasing.
SeriesOfLen(L) ==
    { [i \in 1..L |-> [date |-> i, open |-> f[i].open, close |-> f[i].close]] :
        f \in [1..L -> [open : Prices, close : Prices]] }

AllSeries == UNION { SeriesOfLen(L) : L \in 0..MaxLen }

VARIABLES
    series,               \* rows the reader iterates over
    pos,                  \* rows the reader has handed out
    pc,                   \* position in the running function
    n,                    \* find_days: n
    find_best,            \* find_days: find_best
    chosen_days,          \* find_days: chosen_days
    last_closing_price,   \* find_days: last_closing_price
    change_percentage,    \* find_days: change_percentage
    fill_i,               \* find_days: iterations of the fill loop done
    missed_days_dates,    \* perf_if_missing_days: missed_days_dates
    open_price,           \* perf_if_missing_days: open_price
    last_close_price,     \* perf_if_missing_days: last_close_price
    value,                \* perf_if_missing_days: value
    missed_yesterday,     \* perf_if_missing_days: missed_yesterday
    sells,                \* dates at which line 91 added a close
    buys,                 \* dates at which line 85 subtracted an open
    total_changed_percentage,
    changed_percentage_if_missing_days

readerVars == <<series, pos, pc>>
findVars == <<n, find_best, chosen_days, last_closing_price, change_percentage, fill_i>>
perfVars == <<missed_days_dates, open_price, last_close_price, value, missed_yesterday,
              sells, buys, total_changed_percentage, changed_percentage_if_missing_days>>
vars == <<readerVars, findVars, perfVars>>

\* ------------------------------------------------------------- reader
\* next(data_dict_reader) yields a row or raises StopIteration
HasNext == pos < Len(series)
NextRow == series[pos + 1]

\* ------------------------------------------------------------- find_days
\* list.sort(key=lambda x: x[1], reverse=reverse): stable in both directions
Precedes(x, y, reverse) ==
    IF reverse THEN Less(y.change_percentage, x.change_percentage)
               ELSE Less(x.change_percentage, y.change_percentage)

RECURSIVE InsertSorted(_, _, _)
InsertSorted(sorted, x, reverse) ==
    IF sorted = <<>> THEN <<x>>
    ELSE IF Precedes(x, Head(sorted), reverse) THEN <<x>> \o sorted
    ELSE <<Head(sorted)>> \o InsertSorted(Tail(sorted), x, reverse)

RECURSIVE SortByChange(_, _)
SortByChange(s, reverse) ==
    IF s = <<>> THEN <<>>
    ELSE InsertSorted(SortByChange(SubSeq(s, 1, Len(s) - 1), reverse), s[Len(s)], reverse)

\* list.pop()
Pop(s) == SubSeq(s, 1, Len(s) - 1)

\* range(n - 1)
FillCountOffByOne(k) == k
FillCount(k) == k - 1

\* line 38
FirstReferenceClose(first_day) == first_day.close
FirstReference(first_day) == first_day.open

\* lines 57-62: the `continue` test
Skips(cp, chosen, best) ==
    IF best THEN Less(cp, chosen[Len(chosen)].change_percentage)
            ELSE Less(chosen[Len(chosen)].change_percentage, cp)

\* lines 64-66
InsertNoPop(chosen, perf, best) == SortByChange(Append(chosen, perf), best)
Insert(chosen, perf, best) == Pop(SortByChange(Append(chosen, perf), best))

InitFind ==
    /\ series \in AllSeries
    /\ pos = 0
    /\ pc = "start"
    /\ n \in 0..MaxN
    /\ find_best \in BOOLEAN
    /\ chosen_days = <<>>
    /\ last_closing_price = 0
    /\ change_percentage = Unset
    /\ fill_i = 0
    /\ missed_days_dates = {}
    /\ open_price = 0
    /\ last_close_price = 0
    /\ value = 0
    /\ missed_yesterday = FALSE
    /\ sells = <<>>
    /\ buys = <<>>
    /\ total_changed_percentage = Unset
    /\ changed_percentage_if_missing_days = Unset

\* lines 28-29
FindReturnEmpty ==
    /\ pc = "start"
    /\ n = 0
    /\ pc' = "done"
    /\ UNCHANGED <<series, pos, findVars, perfVars>>

\* lines 32-38
FindFirstDay ==
    /\ pc = "start"
    /\ n # 0
    /\ IF HasNext
       THEN LET first_day == NextRow
                cp == Div(first_day.close - first_day.open, first_day.open)
            IN  /\ pos' = pos + 1
                /\ change_percentage' = cp
                /\ chosen_days' = Append(chosen_days, DayPerf(first_day.date, cp))
                /\ last_closing_price' = FirstReference(first_day)
                /\ pc' = IF FillCount(n) = 0 THEN "scan" ELSE "fill"
       ELSE /\ pc' = "error"
            /\ UNCHANGED <<pos, change_percentage, chosen_days, last_closing_price>>
    /\ UNCHANGED <<series, n, find_best, fill_i, perfVars>>

\* lines 41-46, one iteration
FindFillDay ==
    /\ pc = "fill"
    /\ fill_i < FillCount(n)
    /\ IF HasNext
       THEN LET day == NextRow
                cp == Div(day.close - last_closing_price, last_closing_price)
            IN  /\ pos' = pos + 1
                /\ change_percentage' = cp
                /\ last_closing_price' = day.close
                /\ chosen_days' = Append(chosen_days, DayPerf(day.date, cp))
                /\ fill_i' = fill_i + 1
                /\ pc' = IF fill_i + 1 = FillCount(n) THEN "scan" ELSE "fill"
       ELSE /\ pc' = "error"
            /\ UNCHANGED <<pos, change_percentage, chosen_days, last_closing_price, fill_i>>
    /\ UNCHANGED <<series, n, find_best, perfVars>>

\* lines 49-66, one iteration
FindScanDay ==
    /\ pc = "scan"
    /\ HasNext
    /\ LET day == NextRow
           cp == Div(day.close - last_closing_price, last_closing_price)
       IN  /\ pos' = pos + 1
           /\ change_percentage' = cp
           /\ last_closing_price' = day.close
           /\ chosen_days' = IF Skips(cp, chosen_days, find_best)
                             THEN chosen_days
                             ELSE Insert(chosen_days, DayPerf(day.date, cp), find_best)
    /\ UNCHANGED <<series, pc, n, find_best, fill_i, perfVars>>

\* line 68
FindReturn ==
    /\ pc = "scan"
    /\ ~HasNext
    /\ pc' = "done"
    /\ UNCHANGED <<series, pos, findVars, perfVars>>

NextFind ==
    \/ FindReturnEmpty
    \/ FindFirstDay
    \/ FindFillDay
    \/ FindScanDay
    \/ FindReturn

SpecFind == InitFind /\ [][NextFind]_vars


\* ------------------------------------------------------------- properties of find_days
Dates(chosen) == { chosen[i].date : i \in 1..Len(chosen) }
Values(chosen) == [i \in 1..Len(chosen) |-> chosen[i].change_percentage]

\* The running-reference rule: row 1 against its own open, row 2 against row 1's
\* open, every later row against the close of the row before it.
RefPrice(j) == IF j <= 2 THEN series[1].open ELSE series[j - 1].close
ChangeOf(j) == Div(series[j].close - RefPrice(j), RefPrice(j))

\* Brute force: every change among the first i rows, ranked in the mode's
\* direction, cut to the first k values.
AllChanges(i) == [j \in 1..i |-> DayPerf(j, ChangeOf(j))]
BruteForceTop(i, k, best) == SubSeq(Values(SortByChange(AllChanges(i), best)), 1, k)

Seeded == pc \in {"scan", "done"} /\ n >= 1

\* C1: once the first i >= n rows are processed, the values held in chosen_days
\* are, as a multiset, the n greatest (find_best) or n least (otherwise) of the i
\* changes computed by the running-reference rule.
C1_HoldsTopN ==
    Seeded => Values(SortByChange(chosen_days, find_best)) = BruteForceTop(pos, n, find_best)

\* C2: the returned list is strictly descending by change_percentage when
\* find_best, strictly ascending otherwise, for every pair of adjacent entries.
C2_ReturnedStrictlySorted ==
    (pc = "done" /\ n >= 1) =>
        \A i \in 1..(Len(chosen_days) - 1) :
            IF find_best
            THEN Less(chosen_days[i + 1].change_percentage, chosen_days[i].change_percentage)
            ELSE Less(chosen_days[i].change_percentage, chosen_days[i + 1].change_percentage)

\* C6: with n >= 1 and fewer than n rows find_days stops with the reader's
\* StopIteration while it is still seeding and never returns; with at least n
\* rows it never raises; and before either outcome it can always take a step.
C6_ErrorIffTooFewRows ==
    /\ pc = "error" =>
          /\ n >= 1
          /\ Len(series) < n
          /\ pos = Len(series)
          /\ Len(chosen_days) = pos
    /\ pc \in {"scan", "done"} => (n = 0 \/ Len(series) >= n)
    /\ pc \in {"start", "fill"} => ENABLED NextFind

C6_Witness == pc = "error" /\ n >= 2 /\ pos >= 1

\* C7: find_days returns exactly n entries, their dates pairwise distinct and
\* each the date of a row of the series; for n = 0 it returns the empty list
\* and has taken no row from the reader.
C7_ReturnsNDistinctDates ==
    pc = "done" =>
        /\ Len(chosen_days) = n
        /\ Cardinality(Dates(chosen_days)) = n
        /\ Dates(chosen_days) \subseteq { series[i].date : i \in 1..Len(series) }
        /\ n = 0 => (chosen_days = <<>> /\ pos = 0)

C7_Witness ==
    /\ pc = "done"
    /\ n >= 2
    /\ Len(series) > n
    /\ \E d \in Dates(chosen_days) : d > n

\* C8: the change of row j is taken against RefPrice(j), and once row j is
\* processed the running reference is row 1's open for j = 1 and row j's close
\* for every j >= 2, inserted or not.
C8_ReferenceRule ==
    pos >= 1 =>
        /\ change_percentage = ChangeOf(pos)
        /\ last_closing_price = IF pos = 1 THEN series[1].open ELSE series[pos].close

C8_Witness ==
    /\ pc = "scan"
    /\ pos >= 3
    /\ pos \notin Dates(chosen_days)
    /\ series[1].open # series[1].close
    /\ series[pos].close # series[pos - 1].close

\* C9: in the scan loop, a candidate whose change equals that of the current
\* last element of chosen_days leaves chosen_days as it was (the candidate is
\* the entry dropped).
TieAtBoundary ==
    /\ pc = "scan"
    /\ HasNext
    /\ Div(NextRow.close - last_closing_price, last_closing_price)
         = chosen_days[Len(chosen_days)].change_percentage

C9_TieKeepsSet == [][TieAtBoundary => chosen_days' = chosen_days]_vars

\* ------------------------------------------------------------- perf_if_missing_days
\* lines 73-80: the locals before the loop
PerfStartTestsFirstDay(first_day, missed) ==
    [open_price |-> first_day.open,
     last_close_price |-> first_day.close,
     value |-> 0,
     missed_yesterday |-> first_day.date \in missed]
PerfStart(first_day, missed) ==
    [open_price |-> first_day.open,
     last_close_price |-> first_day.close,
     value |-> 0,
     missed_yesterday |-> FALSE]

\* lines 84-85
Buys(st, day, missed) == st.missed_yesterday /\ day.date \notin missed
\* line 90
Sells(day, missed) == day.date \in missed

\* lines 82-94: one iteration of the loop
PerfStep(st, day, missed) ==
    LET bought == IF Buys(st, day, missed) THEN st.value - day.open ELSE st.value
    IN  [open_price |-> st.open_price,
         last_close_price |-> day.close,
         value |-> IF Sells(day, missed) THEN bought + st.last_close_price ELSE bought,
         missed_yesterday |-> Sells(day, missed)]

\* line 96
FinalValueNoClose(st) == st.value
FinalValue(st) == st.value + st.last_close_price

\* lines 98-102
PerfFinish(st) ==
    LET v == FinalValue(st)
    IN  [value |-> v,
         total_changed_percentage |-> Div(st.last_close_price - st.open_price, st.open_price),
         changed_percentage_if_missing_days |-> Div(v - st.open_price, st.open_price)]

\* lines 73-102 on a whole series of at least one row
RECURSIVE PerfLoop(_, _, _, _)
PerfLoop(st, s, i, missed) ==
    IF i > Len(s) THEN st ELSE PerfLoop(PerfStep(st, s[i], missed), s, i + 1, missed)

PerfIfMissingDays(s, missed) == PerfFinish(PerfLoop(PerfStart(s[1], missed), s, 2, missed))

PerfState ==
    [open_price |-> open_price,
     last_close_price |-> last_close_price,
     value |-> value,
     missed_yesterday |-> missed_yesterday]

InitPerf ==
    /\ series \in AllSeries
    /\ pos = 0
    /\ pc = "pstart"
    /\ n = 0
    /\ find_best = TRUE
    /\ chosen_days = <<>>
    /\ last_closing_price = 0
    /\ change_percentage = Unset
    /\ fill_i = 0
    /\ missed_days_dates \in SUBSET { series[i].date : i \in 1..Len(series) }
    /\ open_price = 0
    /\ last_close_price = 0
    /\ value = 0
    /\ missed_yesterday = FALSE
    /\ sells = <<>>
    /\ buys = <<>>
    /\ total_changed_percentage = Unset
    /\ changed_percentage_if_missing_days = Unset

\* lines 73-80
PerfFirstDay ==
    /\ pc = "pstart"
    /\ IF HasNext
       THEN LET st == PerfStart(NextRow, missed_days_dates)
            IN  /\ pos' = pos + 1
                /\ open_price' = st.open_price
                /\ last_close_price' = st.last_close_price
                /\ value' = st.value
                /\ missed_yesterday' = st.missed_yesterday
                /\ pc' = "ploop"
       ELSE /\ pc' = "error"
            /\ UNCHANGED <<pos, open_price, last_close_price, value, missed_yesterday>>
    /\ UNCHANGED <<series, findVars, missed_days_dates, sells, buys,
                   total_changed_percentage, changed_percentage_if_missing_days>>

\* lines 81-94, one iteration
PerfDay ==
    /\ pc = "ploop"
    /\ HasNext
    /\ LET day == NextRow
           st == PerfStep(PerfState, day, missed_days_dates)
       IN  /\ pos' = pos + 1
           /\ open_price' = st.open_price
           /\ last_close_price' = st.last_close_price
           /\ value' = st.value
           /\ missed_yesterday' = st.missed_yesterday
           /\ buys' = IF Buys(PerfState, day, missed_days_dates)
                      THEN Append(buys, day.date) ELSE buys
           /\ sells' = IF Sells(day, missed_days_dates)
                       THEN Append(sells, day.date) ELSE sells
    /\ UNCHANGED <<series, pc, findVars, missed_days_dates,
                   total_changed_percentage, changed_percentage_if_missing_days>>

\* lines 96-105
PerfReport ==
    /\ pc = "ploop"
    /\ ~HasNext
    /\ LET r == PerfFinish(PerfState)
       IN  /\ value' = r.value
           /\ total_changed_percentage' = r.total_changed_percentage
           /\ changed_percentage_if_missing_days' = r.changed_percentage_if_missing_days
    /\ pc' = "pdone"
    /\ UNCHANGED <<series, pos, findVars, missed_days_dates, open_price, last_close_price,
                   missed_yesterday, sells, buys>>

NextPerf ==
    \/ PerfFirstDay
    \/ PerfDay
    \/ PerfReport

SpecPerf == InitPerf /\ [][NextPerf]_vars

\* ------------------------------------------------------------- properties of perf_if_missing_days
Missed(j) == series[j].date \in missed_days_dates
SeqDates(s) == { s[i] : i \in 1..Len(s) }

\* first rows of the maximal runs of missed dates among rows 2..L
RunStarts == { j \in 2..Len(series) : Missed(j) /\ (j = 2 \/ ~Missed(j - 1)) }
\* rows that follow such a run and are not missed themselves
RunExits == { j \in 3..Len(series) : ~Missed(j) /\ Missed(j - 1) }

\* C3: every maximal run of missed dates among rows 2..L records exactly one
\* sell, on its first row, and exactly one buy, on the non-missed row after it
\* when there is one; the later rows of a run record no sell.
C3_OneSellOneBuyPerRun ==
    pc = "pdone" =>
        /\ Len(sells) = Cardinality(RunStarts)
        /\ SeqDates(sells) = { series[j].date : j \in RunStarts }
        /\ Len(buys) = Cardinality(RunExits)
        /\ SeqDates(buys) = { series[j].date : j \in RunExits }

\* C4: when the only missed date is that of the last row, the final value is
\* the close of the row before it: one sell, no buy, and no further addition
\* of the last close.
C4_LastDayMissed ==
    (/\ pc = "pdone"
     /\ Len(series) >= 2
     /\ missed_days_dates = { series[Len(series)].date }) =>
        /\ sells = << series[Len(series)].date >>
        /\ buys = <<>>
        /\ value = series[Len(series) - 1].close

\* C5: with no missed date the final value is the last close and the adjusted
\* return equals the held return.
C5_NoMissedDays ==
    (pc = "pdone" /\ missed_days_dates = {}) =>
        /\ value = series[Len(series)].close
        /\ changed_percentage_if_missing_days = total_changed_percentage

C5_Witness ==
    /\ pc = "pdone"
    /\ missed_days_dates = {}
    /\ Len(series) >= 2
    /\ series[Len(series)].close # series[1].open

\* C10: the first row's date is never looked up in the missed dates: the outcome
\* is the same with that date added to or removed from them, and no sell or buy
\* is recorded for the first row.
C10_FirstDayNeverMissed ==
    pc = "pdone" =>
        LET d1 == series[1].date
            r == [value |-> value,
                  total_changed_percentage |-> total_changed_percentage,
                  changed_percentage_if_missing_days |-> changed_percentage_if_missing_days]
        IN  /\ r = PerfIfMissingDays(series, missed_days_dates \cup {d1})
            /\ r = PerfIfMissingDays(series, missed_days_dates \ {d1})
            /\ d1 \notin SeqDates(sells) \cup SeqDates(buys)

C10_Witness ==
    /\ pc = "pdone"
    /\ Len(series) >= 2
    /\ series[1].date \in missed_days_dates
    /\ series[2].date \notin missed_days_dates

====
